---- MODULE Spec2Model ----
(***************************************************************************)
(* Model of utils/autobatch.py (YOLOv5 6.1): check_train_batch_size and    *)
(* autobatch.  One behaviour is a sequence of calls made against one fixed *)
(* environment (device kind, device memory figures, outcome of the         *)
(* profiling helper), so that two calls of one behaviour can be compared.  *)
(*                                                                         *)
(* Numbers.  Memory figures are integers in one common unit (the code      *)
(* converts bytes to GiB on lines 49-51; the model starts from that unit). *)
(* fraction is a rational <<numerator, denominator>>.  The fit p is kept   *)
(* as <<slope numerator, intercept numerator, common denominator>> with a  *)
(* positive denominator, so that line 65 is computed exactly; the floating *)
(* point rounding of numpy is not modelled.                                *)
(***************************************************************************)
EXTENDS Integers, Sequences, FiniteSets, TLC

VARIABLES
    device,       \* env: type of next(model.parameters()).device
    t, r, a,      \* env: total / reserved / allocated memory of the device
    results,      \* env: what profile returns, one entry per candidate
    raiseAt,      \* env: candidate index at which probing raises (0: never)
    raiseIn,      \* env: "zeros" (line 57) or "profile" (line 58) or "none"
    training,     \* mode of the caller's model ("orig") and of the deep copy
    pc,           \* position of the running call
    entry,        \* entry point of the running call
    target,       \* the model object autobatch was given: "orig" or "copy"
    fraction, batch_size,          \* arguments of autobatch
    f, y, batch_sizes, p,          \* locals of autobatch
    yBound,                        \* whether the frame binds y
    warned, profCalled, memQueried,\* what the running call has invoked
    outcome, ret,                  \* how the running call ended
    prev,         \* arguments and outcome of the previous call
    ncalls

vars == <<device, t, r, a, results, raiseAt, raiseIn, training, pc, entry,
          target, fraction, batch_size, f, y, yBound, batch_sizes, p, warned,
          profCalled, memQueried, outcome, ret, prev, ncalls>>

env == <<device, t, r, a, results, raiseAt, raiseIn>>

-----------------------------------------------------------------------------
(* Bounds of the model *)

MaxCalls == 2
MaxTotal == 16
LinSlope == 1
LinIcpt == 2

(* Program constants *)

NumCandidates == 5
DefaultBatchSize == 16

None == <<>>
NoCall == [entry |-> "none", fraction |-> <<0, 1>>, batch_size |-> 0,
           outcome |-> "none", ret |-> 0]

Half == <<1, 2>>
One == <<1, 1>>
DefaultFraction == <<9, 10>>

\* batch_sizes as a module-level list that is only filled when empty and is
\* then truncated in place by every call
StaleBatchSizes == IF batch_sizes = <<>> THEN <<1, 2, 4, 8, 16>> ELSE batch_sizes

\* line 55
Candidates == <<1, 2, 4, 8, 16>>

Min(m, n) == IF m <= n THEN m ELSE n
Abs(n) == IF n < 0 THEN -n ELSE n

\* Python's s[:n] for n >= 0
Take(s, n) == SubSeq(s, 1, Min(n, Len(s)))

\* Python's int() of the quotient n / d of two exact numbers, d # 0:
\* truncation toward zero
TruncDiv(n, d) ==
    IF (n >= 0) = (d > 0) THEN Abs(n) \div Abs(d) ELSE -(Abs(n) \div Abs(d))

\* memory measured by a probe whose usage is exactly linear in batch size
Lin(b) == LinSlope * b + LinIcpt

\* one result entry of profile as autobatch reads it: (shape, time, memory)
Entry(b, m) == <<b, 0, m>>

\* the entries profile may give for candidate number i
EntryChoices(i) ==
    LET b == <<1, 2, 4, 8, 16>>[i] IN {None, Entry(b, 0), Entry(b, Lin(b))}

\* the device memory figures (t, r, a), allocated memory being part of the
\* reserved memory
MemChoices ==
    {<<MaxTotal, 0, 0>>, <<MaxTotal, MaxTotal - 4, 0>>,
     <<MaxTotal, MaxTotal - 4, MaxTotal - 6>>}

\* the arguments of a direct call of autobatch
ArgChoices == {<<Half, 8>>, <<One, DefaultBatchSize>>}

-----------------------------------------------------------------------------
(* The pure steps of autobatch *)

\* the test of line 43, dropped
IsCpu_never(d) == FALSE

\* line 43
IsCpu(d) == d = "cpu"

\* line 52
Free(tt, rr, aa) == tt - (rr + aa)

\* line 19 without the deepcopy
WrapperTarget_alias == "orig"

\* line 19: autobatch is given deepcopy(model)
WrapperTarget == "copy"

\* a filter on the memory field: [x[2] for x in y if x and x[2]]
FilterMem_truthy(res) ==
    LET keep(x) == x # None /\ x[3] # 0
        kept == SelectSeq(res, keep)
    IN [i \in 1..Len(kept) |-> kept[i][3]]

\* line 62: [x[2] for x in y if x]
FilterMem(res) ==
    LET keep(x) == x # None
        kept == SelectSeq(res, keep)
    IN [i \in 1..Len(kept) |-> kept[i][3]]

RECURSIVE Sum(_)
Sum(s) == IF s = <<>> THEN 0 ELSE Head(s) + Sum(Tail(s))

Prod(xs, ys) == [i \in 1..Len(xs) |-> xs[i] * ys[i]]

\* line 64: np.polyfit(batch_sizes, y, deg=1) for Len(xs) = Len(ys) >= 1 and
\* distinct xs.  Two or more points: the least-squares line.  One point
\* (x, m): the system is rank deficient and numpy's lstsq gives the
\* minimum-norm solution of the column-scaled system, slope m/(2x) and
\* intercept m/2.
Polyfit(xs, ys) ==
    LET n == Len(xs)
        Sx == Sum(xs)
        Sy == Sum(ys)
        Sxx == Sum(Prod(xs, xs))
        Sxy == Sum(Prod(xs, ys))
    IN IF n = 1
       THEN <<ys[1], ys[1] * xs[1], 2 * xs[1]>>
       ELSE <<n * Sxy - Sx * Sy, Sy * Sxx - Sx * Sxy, n * Sxx - Sx * Sx>>

\* numerator and denominator of (f * fraction - p[1]) / p[0] on line 65
EstNum(ff, fr, pp) == ff * fr[1] * pp[3] - fr[2] * pp[2]
EstDen(ff, fr, pp) == fr[2] * pp[1]

\* line 65 with the fraction argument ignored in favour of its default
Estimate_default(ff, fr, pp) ==
    TruncDiv(EstNum(ff, DefaultFraction, pp), EstDen(ff, DefaultFraction, pp))

\* line 65: int((f * fraction - p[1]) / p[0]) for a slope p[0] # 0
Estimate(ff, fr, pp) == TruncDiv(EstNum(ff, fr, pp), EstDen(ff, fr, pp))

-----------------------------------------------------------------------------
(* Initial states *)

Init ==
    /\ device \in {"cpu", "cuda"}
    /\ \E m \in MemChoices : t = m[1] /\ r = m[2] /\ a = m[3]
    /\ raiseAt \in 0..NumCandidates
    /\ raiseIn \in {"none", "zeros", "profile"}
    /\ (raiseAt = 0) = (raiseIn = "none")
    /\ \E e1 \in EntryChoices(1), e2 \in EntryChoices(2), e3 \in EntryChoices(3),
          e4 \in EntryChoices(4), e5 \in EntryChoices(5) :
          results = <<e1, e2, e3, e4, e5>>
    /\ \A i \in 1..NumCandidates :
          (raiseAt # 0 /\ i >= raiseAt) => results[i] = None
    /\ training \in {[orig |-> "eval", copy |-> "absent"],
                     [orig |-> "train", copy |-> "absent"]}
    /\ pc = "idle"
    /\ entry = "none"
    /\ target = "orig"
    /\ fraction = DefaultFraction
    /\ batch_size = DefaultBatchSize
    /\ f = 0
    /\ y = <<>>
    /\ yBound = FALSE
    /\ batch_sizes = <<>>
    /\ p = <<0, 0, 1>>
    /\ warned = FALSE
    /\ profCalled = FALSE
    /\ memQueried = FALSE
    /\ outcome = "none"
    /\ ret = 0
    /\ prev = NoCall
    /\ ncalls = 0

-----------------------------------------------------------------------------
(* Actions *)

CanCall == pc \in {"idle", "done"} /\ ncalls < MaxCalls

\* what the caller has seen of the call that just ended
LastCall ==
    IF pc = "done"
    THEN [entry |-> entry, fraction |-> fraction, batch_size |-> batch_size,
          outcome |-> outcome, ret |-> ret]
    ELSE prev

\* a new frame of autobatch: y is the one local that is read (line 62) on a
\* path that has not assigned it, so the frame's not binding it is modelled
\* (yBound); the other locals are assigned before they are read and keep
\* their stale values.
Enter(e, tg, fr, bs) ==
    /\ prev' = LastCall
    /\ ncalls' = ncalls + 1
    /\ entry' = e
    /\ target' = tg
    /\ fraction' = fr
    /\ batch_size' = bs
    /\ y' = <<>>
    /\ yBound' = FALSE
    /\ warned' = FALSE
    /\ profCalled' = FALSE
    /\ memQueried' = FALSE
    /\ outcome' = "none"
    /\ ret' = 0
    /\ pc' = "start"
    /\ UNCHANGED <<env, f, batch_sizes, p>>

\* lines 22-31: autobatch called directly on the caller's model
CallAutobatch ==
    /\ CanCall
    /\ \E arg \in ArgChoices : Enter("autobatch", "orig", arg[1], arg[2])
    /\ UNCHANGED training

\* lines 16-19: autobatch(deepcopy(model).train(), imgsz)
CheckTrainBatchSize ==
    /\ CanCall
    /\ LET copied == [training EXCEPT !["copy"] = training["orig"]]
       IN training' = [copied EXCEPT ![WrapperTarget] = "train"]
    /\ Enter("check_train_batch_size", WrapperTarget, DefaultFraction,
             DefaultBatchSize)

\* lines 42-45
CpuReturn ==
    /\ pc = "start"
    /\ IsCpu(device)
    /\ outcome' = "return"
    /\ ret' = batch_size
    /\ pc' = "done"
    /\ UNCHANGED <<env, training, entry, target, fraction, batch_size, f, y, yBound,
                   batch_sizes, p, warned, profCalled, memQueried, prev, ncalls>>

\* lines 47-55
QueryMemory ==
    /\ pc = "start"
    /\ ~IsCpu(device)
    /\ memQueried' = TRUE
    /\ f' = Free(t, r, a)
    /\ batch_sizes' = Candidates
    /\ pc' = "probe"
    /\ UNCHANGED <<env, training, entry, target, fraction, batch_size, y, yBound, p,
                   warned, profCalled, outcome, ret, prev, ncalls>>

\* the candidate at which probing raises lies among those being probed
Raises == raiseAt # 0 /\ raiseAt <= Len(batch_sizes)

\* lines 56-58: the probe tensors are built and profile returns
ProbeOk ==
    /\ pc = "probe"
    /\ ~Raises
    /\ profCalled' = TRUE
    /\ y' = Take(results, Len(batch_sizes))
    /\ yBound' = TRUE
    /\ pc' = "filter"
    /\ UNCHANGED <<env, training, entry, target, fraction, batch_size, f,
                   batch_sizes, p, warned, memQueried, outcome, ret, prev,
                   ncalls>>

\* lines 56-60: building a tensor or profile raises; the handler logs a
\* warning and y stays unassigned
ProbeRaise ==
    /\ pc = "probe"
    /\ Raises
    /\ profCalled' = (raiseIn = "profile")
    /\ warned' = TRUE
    /\ pc' = "filter"
    /\ UNCHANGED <<env, training, entry, target, fraction, batch_size, f, y, yBound,
                   batch_sizes, p, memQueried, outcome, ret, prev, ncalls>>

\* line 62 reads y, which no statement has assigned
FilterUnbound ==
    /\ pc = "filter"
    /\ ~yBound
    /\ outcome' = "UnboundLocalError"
    /\ pc' = "done"
    /\ UNCHANGED <<env, training, entry, target, fraction, batch_size, f, y, yBound,
                   batch_sizes, p, warned, profCalled, memQueried, ret, prev,
                   ncalls>>

\* lines 62-63
Filter ==
    /\ pc = "filter"
    /\ yBound
    /\ y' = FilterMem(y)
    /\ UNCHANGED yBound
    /\ batch_sizes' = Take(batch_sizes, Len(FilterMem(y)))
    /\ pc' = "fit"
    /\ UNCHANGED <<env, training, entry, target, fraction, batch_size, f, p,
                   warned, profCalled, memQueried, outcome, ret, prev, ncalls>>

\* line 64: np.polyfit raises TypeError on an empty x and on x and y of
\* different lengths
FitRaise ==
    /\ pc = "fit"
    /\ (Len(batch_sizes) = 0 \/ Len(batch_sizes) # Len(y))
    /\ outcome' = "TypeError"
    /\ pc' = "done"
    /\ UNCHANGED <<env, training, entry, target, fraction, batch_size, f, y, yBound,
                   batch_sizes, p, warned, profCalled, memQueried, ret, prev,
                   ncalls>>

\* line 64
Fit ==
    /\ pc = "fit"
    /\ Len(batch_sizes) # 0
    /\ Len(batch_sizes) = Len(y)
    /\ p' = Polyfit(batch_sizes, y)
    /\ pc' = "estimate"
    /\ UNCHANGED <<env, training, entry, target, fraction, batch_size, f, y, yBound,
                   batch_sizes, warned, profCalled, memQueried, outcome, ret,
                   prev, ncalls>>

\* line 65 with a zero slope: the numpy quotient is inf or nan, and int()
\* raises OverflowError or ValueError
EstimateRaise ==
    /\ pc = "estimate"
    /\ p[1] = 0
    /\ outcome' = IF EstNum(f, fraction, p) = 0 THEN "ValueError"
                  ELSE "OverflowError"
    /\ pc' = "done"
    /\ UNCHANGED <<env, training, entry, target, fraction, batch_size, f, y, yBound,
                   batch_sizes, p, warned, profCalled, memQueried, ret, prev,
                   ncalls>>

\* lines 65-67
EstimateReturn ==
    /\ pc = "estimate"
    /\ p[1] # 0
    /\ ret' = Estimate(f, fraction, p)
    /\ outcome' = "return"
    /\ pc' = "done"
    /\ UNCHANGED <<env, training, entry, target, fraction, batch_size, f, y, yBound,
                   batch_sizes, p, warned, profCalled, memQueried, prev,
                   ncalls>>

Next ==
    \/ CallAutobatch
    \/ CheckTrainBatchSize
    \/ CpuReturn
    \/ QueryMemory
    \/ ProbeOk
    \/ ProbeRaise
    \/ FilterUnbound
    \/ Filter
    \/ FitRaise
    \/ Fit
    \/ EstimateRaise
    \/ EstimateReturn

Spec == Init /\ [][Next]_vars

-----------------------------------------------------------------------------
(* Vocabulary of the properties *)

Wrapper == "check_train_batch_size"

\* the entries of the candidates probed before probing raised (all of them
\* when it did not)
Probed == IF raiseAt = 0 THEN results ELSE SubSeq(results, 1, raiseAt - 1)

\* memory and batch size of the non-empty entries of a result list, in order
RECURSIVE KeptMem(_)
KeptMem(res) ==
    IF res = <<>> THEN <<>>
    ELSE (IF Head(res) # None THEN <<Head(res)[3]>> ELSE <<>>)
         \o KeptMem(Tail(res))

RECURSIVE KeptSizes(_)
KeptSizes(res) ==
    IF res = <<>> THEN <<>>
    ELSE (IF Head(res) # None THEN <<Head(res)[1]>> ELSE <<>>)
         \o KeptSizes(Tail(res))

\* index of the first empty entry of a result list (its length + 1 if none)
RECURSIVE FirstFail(_)
FirstFail(res) ==
    IF res = <<>> \/ Head(res) = None THEN 1 ELSE 1 + FirstFail(Tail(res))

\* the least-squares slope numerator of the samples probed, each at its own
\* batch size
ProbedSlope == Polyfit(KeptSizes(Probed), KeptMem(Probed))[1]

\* two or more samples were probed and their line is not flat
UsableSamples == Len(KeptMem(Probed)) >= 2 /\ ProbedSlope # 0

\* every sample probed is exactly Lin of its own batch size
LinearSamples ==
    /\ Len(KeptMem(Probed)) >= 2
    /\ \A i \in 1..Len(Probed) :
          Probed[i] # None => Probed[i][3] = LinSlope * Probed[i][1] + LinIcpt

\* the empty entries of the result list are all at its end
NoGap ==
    \A i \in 1..NumCandidates, j \in 1..NumCandidates :
        (i < j /\ results[i] = None) => results[j] = None

\* int((free * fraction - c) / s) for the line of LinearSamples
LinearEstimate ==
    TruncDiv((t - (r + a)) * fraction[1] - fraction[2] * LinIcpt,
             fraction[2] * LinSlope)

\* this call and the previous one both returned, with fractions 1.0 and 0.5
HalfAndOne ==
    /\ pc = "done" /\ device = "cuda"
    /\ outcome = "return" /\ prev.outcome = "return"
    /\ p[1] > 0
    /\ {fraction, prev.fraction} = {Half, One}

RetOne == IF fraction = One THEN ret ELSE prev.ret
RetHalf == IF fraction = Half THEN ret ELSE prev.ret

-----------------------------------------------------------------------------
(* Properties *)

\* C1: on a cpu device autobatch returns exactly its batch_size argument and
\* invokes neither profile nor the memory queries of the accelerator.
C1_CpuReturnsBatchSize ==
    device = "cpu" =>
        /\ ~profCalled
        /\ ~memQueried
        /\ pc = "done" => (outcome = "return" /\ ret = batch_size)

C1_Witness ==
    /\ device = "cpu" /\ pc = "done" /\ entry = "autobatch"
    /\ batch_size = 8 /\ ret = 8 /\ prev.outcome = "return"

\* C2: on the accelerator path a failure of the probing step never keeps the
\* call from returning an integer: a call whose probed samples are two or
\* more and not flat returns.
C2_ProbeFailureSwallowed ==
    (pc = "done" /\ device = "cuda" /\ UsableSamples) => outcome = "return"

\* C3: when probing raises at candidate k, a warning is logged and the fit is
\* computed over exactly the samples probed before k, each paired with its
\* own batch size.
C3_FitOverProbedPrefix ==
    (pc = "done" /\ device = "cuda" /\ raiseAt # 0 /\ UsableSamples) =>
        /\ warned
        /\ outcome = "return"
        /\ y = KeptMem(Probed)
        /\ batch_sizes = KeptSizes(Probed)

\* C4: with two or more valid samples exactly linear in batch size
\* (memory = s*b + c, s > 0) autobatch returns int((free*fraction - c) / s),
\* free = T - (R + A).
C4_LinearEstimate ==
    (pc = "done" /\ device = "cuda" /\ raiseAt = 0 /\ LinearSamples) =>
        (outcome = "return" /\ ret = LinearEstimate)

\* C4, the case in which the empty entries are all at the end of the list
C4_LinearEstimateNoGap ==
    (pc = "done" /\ device = "cuda" /\ raiseAt = 0 /\ LinearSamples /\ NoGap) =>
        (outcome = "return" /\ ret = LinearEstimate)

\* C5 as stated: with the same device memory and samples and a slope > 0,
\* fraction 1.0 returns a strictly greater batch size than fraction 0.5.
\* (Stated for fits over two or more samples with no gap in the result list,
\* which is where the fit is the one the claim has in mind.)
C5_StrictlyGreater ==
    (HalfAndOne /\ Len(y) >= 2 /\ NoGap) => RetOne > RetHalf

\* C5 as amended: with free memory >= 0 fraction 1.0 returns at least what
\* fraction 0.5 returns, and strictly more when free memory is at least four
\* times the slope; with free memory < 0 it returns at most what 0.5 returns.
C5_MonotoneInFraction ==
    HalfAndOne =>
        /\ f >= 0 => RetOne >= RetHalf
        /\ f * p[3] >= 4 * p[1] => RetOne > RetHalf
        /\ f < 0 => RetOne <= RetHalf

C5_Witness == HalfAndOne /\ f * p[3] >= 4 * p[1] /\ RetOne > RetHalf

\* C6: check_train_batch_size never changes the caller's model: autobatch is
\* given a deep copy, train() is applied to the copy, and the mode of the
\* original stays what it was through every step of the call.
C6_OriginalUntouched ==
    [][entry' = Wrapper =>
          /\ training'["orig"] = training["orig"]
          /\ target' = "copy"
          /\ training'["copy"] = "train"]_vars

C6_Witness ==
    /\ pc = "done" /\ entry = Wrapper /\ outcome = "UnboundLocalError"
    /\ training["orig"] = "eval" /\ training["copy"] = "train"

\* C7: two calls with the same arguments, device, memory figures and outcome
\* of profile end in the same outcome and return the same batch size.
C7_Deterministic ==
    (pc = "done" /\ prev.entry # "none"
       /\ prev.fraction = fraction /\ prev.batch_size = batch_size) =>
        (prev.outcome = outcome /\ prev.ret = ret)

C7_Witness ==
    /\ pc = "done" /\ device = "cuda" /\ prev.entry = "autobatch"
    /\ prev.fraction = fraction /\ prev.batch_size = batch_size
    /\ outcome = "return" /\ prev.ret = ret /\ ~NoGap

\* C8: at the fit step the batch sizes are the prefix of [1, 2, 4, 8, 16] cut
\* at the first failed candidate, and every memory value is paired with the
\* batch size at which it was measured.
C8_PrefixCutAtFirstFailure ==
    pc = "fit" =>
        /\ batch_sizes = SubSeq(<<1, 2, 4, 8, 16>>, 1, FirstFail(results) - 1)
        /\ Len(y) = Len(batch_sizes)
        /\ batch_sizes = KeptSizes(results)

\* C9 as stated: no result whose memory_used is None or 0 gives a point to
\* the fit, and the candidate list is cut to the number of samples kept.
C9_NoFalsyMemory ==
    pc = "fit" =>
        /\ \A i \in 1..Len(y) : y[i] # 0
        /\ Len(batch_sizes) = Len(y)

\* C9 as amended: no result entry that is itself empty (None) gives a point
\* to the fit; every other entry does, one whose memory_used is 0 included,
\* and the candidate list is cut to the number of entries kept.
C9_EmptyEntriesFiltered ==
    pc = "fit" =>
        /\ y = KeptMem(results)
        /\ batch_sizes = SubSeq(<<1, 2, 4, 8, 16>>, 1, Len(y))

C9_Witness ==
    /\ pc = "fit"
    /\ \E i \in 1..NumCandidates : results[i] = None
    /\ \E i \in 1..NumCandidates : results[i] # None /\ results[i][3] = 0
    /\ \E i \in 1..Len(y) : y[i] = 0

\* C10: with exactly one valid sample autobatch does not return the batch
\* size of a one-point fit (slope and intercept both half the sample).
C10_NoOnePointFit ==
    (pc = "done" /\ device = "cuda" /\ yBound /\ Len(y) = 1
       /\ outcome = "return") =>
        ret # TruncDiv(2 * f * fraction[1] - fraction[2] * y[1],
                       fraction[2] * y[1])

====
